---------------------------- MODULE Spec2Model ----------------------------
(***************************************************************************)
(* A model of the opentracing helpers: TraceHandler, which wraps an        *)
(* inbound http.Handler in a span, and TraceRequest, which starts a span   *)
(* for an outbound http.Request, injects its context into the headers and  *)
(* attaches httptrace callbacks that log to the span.                      *)
(*                                                                         *)
(* The tracer (opentracing.GlobalTracer()), the HTTP server that calls the *)
(* handler, the wrapped handler and the HTTP transport that fires the      *)
(* httptrace hooks are the environment of this code.  They are modelled by *)
(* what their interfaces allow: a span records what the helpers call on    *)
(* it, the carrier is the request's header map written key by key, and the *)
(* transport fires hooks in any order, also after the round trip has       *)
(* returned.                                                               *)
(***************************************************************************)
EXTENDS Naturals, Sequences, FiniteSets, TLC

\* ------------------------------------------------------------------ bounds

\* Inbound requests served by the wrapped handler.
MaxRequests == 2

Requests == 1..MaxRequests

\* ------------------------------------------------------- inbound: the data

\* The three TraceHandler definitions of the repository: the one of
\* opentracing_helpers.go and part_001 names the span after the pattern, the
\* one of part_000 after the method and the pattern.
Variants == {"pattern", "method+pattern"}

\* What the registered tracer hands back beside an error: Extract's contract
\* fixes the error, not the SpanContext that comes with it.
TracerKinds == {"nilOnError", "emptyOnError"}

Patterns == {"/foo", "/bar"}
Methods == {"GET", "POST"}

\* SpanContext values.  Nil is Go's nil interface, EmptyCtx a non-nil context
\* that carries no trace, the others contexts of a caller's span.
Nil == "nil"
EmptyCtx == "empty"
ParentCtxs == {"ctxA", "ctxB"}

\* The trace headers of an inbound request: none, unparsable ones, or a
\* caller's context.
NoHeaders == "none"
Corrupt == "corrupt"
InHeaders == {NoHeaders, Corrupt} \cup ParentCtxs

NoSpan == [started |-> FALSE, operationName |-> "", references |-> {}, finishCount |-> 0]

VARIABLES
    variant,            \* the TraceHandler definition that is built
    pattern,            \* the pattern TraceHandler was called with
    tracerKind,         \* the tracer registered as opentracing.GlobalTracer()
    hpc,                \* where the closure of TraceHandler stands, per request
    hreq,               \* r: r.Method, r.Header
    parentSpanContext,  \* the first result of Extract
    extractErr,         \* the second result of Extract, which the code drops
    hspan,              \* span
    deferred,           \* defer span.Finish() is registered
    ctxSpan,            \* the span held by r.Context(): 0 for none
    handlerCalls,       \* calls of handler.ServeHTTP
    handlerCtx          \* the span held by the context handler.ServeHTTP got

hvars == <<variant, pattern, tracerKind, hpc, hreq, parentSpanContext, extractErr, hspan,
           deferred, ctxSpan, handlerCalls, handlerCtx>>

\* ------------------------------------------------------ outbound: the data

\* Calls of TraceRequest.
MaxCalls == 2

\* Firings of the attached hooks, over all requests.
MaxEvents == 2

Calls == 1..MaxCalls

OpNames == {"GET example.com", "POST example.com"}

\* What ctx holds: no span, or a span of the caller, without baggage or with a
\* baggage item, which its children inherit.
NoCtxSpan == "none"
CallerSpans == {"callerA", "callerB"}
Ctxs == {NoCtxSpan} \cup CallerSpans
Baggage(ctx) == IF ctx = "callerB" THEN "b" ELSE ""

\* The header map of a request as the tracer's textual carrier sees it: the
\* header of the span's ids and the header of a baggage item, "" when absent.
\* A new request has no trace header, or those of another trace: its ids, or
\* its ids and a baggage item.
CleanHeaders == [id |-> "", baggage |-> ""]
OtherTraceIds == [id |-> "other", baggage |-> ""]
OtherTrace == [id |-> "other", baggage |-> "x"]
InitialHeaders == {CleanHeaders, OtherTraceIds, OtherTrace}

\* The hooks TraceRequest sets in its httptrace.ClientTrace.
HookEvents ==
    {"GetConn", "GotConn", "DNSStart", "DNSDone", "ConnectDone",
     "GotFirstResponseByte", "WroteRequest"}

NoOutSpan ==
    [started |-> FALSE, operationName |-> "", references |-> {},
     context |-> [id |-> "", baggage |-> ""], logs |-> 0, tags |-> {},
     finishCount |-> 0]

VARIABLES
    opc,        \* where the caller of TraceRequest stands, per call
    oargs,      \* operationName and ctx of the call
    ospan,      \* the span TraceRequest returned
    oreq,       \* the request TraceRequest returned: its header map, and the
                \* spans whose hooks its context's ClientTrace calls
    hdrs,       \* the header maps, which a request and its copies share
    fired,      \* hook events the transport fired for the request
    nspans      \* spans started by TraceRequest

ovars == <<opc, oargs, ospan, oreq, hdrs, fired, nspans>>

vars == <<hvars, ovars>>

\* ------------------------------------------------- inbound: the operations

\* tracer.Extract(opentracing.HTTPHeaders, carrier): the context the headers
\* carry, or an error with whatever the tracer returns beside it.
Extract(header, kind) ==
    IF header \in ParentCtxs
    THEN [ctx |-> header, err |-> FALSE]
    ELSE [ctx |-> IF kind = "nilOnError" THEN Nil ELSE EmptyCtx, err |-> TRUE]

\* The name the span is started with.
SpanNameOmitsPattern(v, method, pat) ==
    IF v = "method+pattern" THEN method ELSE pat

SpanName(v, method, pat) ==
    IF v = "method+pattern" THEN method \o " " \o pat ELSE pat

\* The references StartSpan is given: none, or ChildOf(parentSpanContext).
StartOptionsNoParent(parent) == {}

StartOptions(parent) == IF parent = Nil THEN {} ELSE {parent}

\* opentracing.StartSpan(name, opts...)
StartSpan(name, opts) ==
    [started |-> TRUE, operationName |-> name, references |-> opts, finishCount |-> 0]

\* span.Finish()
Finish(s) == [s EXCEPT !.finishCount = @ + 1]

HInit ==
    /\ variant \in Variants
    /\ pattern \in Patterns
    /\ tracerKind \in TracerKinds
    /\ hpc = [i \in Requests |-> "idle"]
    /\ hreq = [i \in Requests |-> [method |-> "GET", header |-> NoHeaders]]
    /\ parentSpanContext = [i \in Requests |-> Nil]
    /\ extractErr = [i \in Requests |-> FALSE]
    /\ hspan = [i \in Requests |-> NoSpan]
    /\ deferred = [i \in Requests |-> FALSE]
    /\ ctxSpan = [i \in Requests |-> 0]
    /\ handlerCalls = [i \in Requests |-> 0]
    /\ handlerCtx = [i \in Requests |-> 0]

\* The server calls the closure TraceHandler returned with a request.
Receive(i) ==
    /\ hpc[i] = "idle"
    /\ \E m \in Methods, h \in InHeaders :
          hreq' = [hreq EXCEPT ![i] = [method |-> m, header |-> h]]
    /\ hpc' = [hpc EXCEPT ![i] = "extract"]
    /\ UNCHANGED <<ovars, variant, pattern, tracerKind, parentSpanContext, extractErr, hspan, deferred,
                   ctxSpan, handlerCalls, handlerCtx>>

\* parentSpanContext, _ := tracer.Extract(opentracing.HTTPHeaders, carrier)
ExtractContext(i) ==
    /\ hpc[i] = "extract"
    /\ LET got == Extract(hreq[i].header, tracerKind)
       IN  /\ parentSpanContext' = [parentSpanContext EXCEPT ![i] = got.ctx]
           /\ extractErr' = [extractErr EXCEPT ![i] = got.err]
    /\ hpc' = [hpc EXCEPT ![i] = "start"]
    /\ UNCHANGED <<ovars, variant, pattern, tracerKind, hreq, hspan, deferred, ctxSpan, handlerCalls,
                   handlerCtx>>

\* if parentSpanContext == nil { span = StartSpan(name) } else { ... ChildOf ... }
StartHandlerSpan(i) ==
    /\ hpc[i] = "start"
    /\ hspan' = [hspan EXCEPT ![i] =
                    StartSpan(SpanName(variant, hreq[i].method, pattern),
                              StartOptions(parentSpanContext[i]))]
    /\ hpc' = [hpc EXCEPT ![i] = "context"]
    /\ UNCHANGED <<ovars, variant, pattern, tracerKind, hreq, parentSpanContext, extractErr, deferred,
                   ctxSpan, handlerCalls, handlerCtx>>

\* defer span.Finish(); r = r.WithContext(opentracing.ContextWithSpan(r.Context(), span))
WithContextFinishingAtOnce(i) ==
    /\ hpc[i] = "context"
    /\ hspan' = [hspan EXCEPT ![i] = Finish(@)]
    /\ ctxSpan' = [ctxSpan EXCEPT ![i] = i]
    /\ hpc' = [hpc EXCEPT ![i] = "call"]
    /\ UNCHANGED <<ovars, variant, pattern, tracerKind, hreq, parentSpanContext, extractErr, deferred,
                   handlerCalls, handlerCtx>>

WithContext(i) ==
    /\ hpc[i] = "context"
    /\ deferred' = [deferred EXCEPT ![i] = TRUE]
    /\ ctxSpan' = [ctxSpan EXCEPT ![i] = i]
    /\ hpc' = [hpc EXCEPT ![i] = "call"]
    /\ UNCHANGED <<ovars, variant, pattern, tracerKind, hreq, parentSpanContext, extractErr, hspan,
                   handlerCalls, handlerCtx>>

\* handler.ServeHTTP(w, r): the wrapped handler starts to run.
ServeHTTP(i) ==
    /\ hpc[i] = "call"
    /\ handlerCalls' = [handlerCalls EXCEPT ![i] = @ + 1]
    /\ handlerCtx' = [handlerCtx EXCEPT ![i] = ctxSpan[i]]
    /\ hpc' = [hpc EXCEPT ![i] = "serving"]
    /\ UNCHANGED <<ovars, variant, pattern, tracerKind, hreq, parentSpanContext, extractErr, hspan,
                   deferred, ctxSpan>>

\* The wrapped handler returns: normally, also when it has written an error
\* response, which is all an http.Handler can report.
HandlerReturns(i) ==
    /\ hpc[i] = "serving"
    /\ hpc' = [hpc EXCEPT ![i] = "returning"]
    /\ UNCHANGED <<ovars, variant, pattern, tracerKind, hreq, parentSpanContext, extractErr, hspan,
                   deferred, ctxSpan, handlerCalls, handlerCtx>>

\* The wrapped handler panics; the closure does not recover.
HandlerPanics(i) ==
    /\ hpc[i] = "serving"
    /\ hpc' = [hpc EXCEPT ![i] = "panicking"]
    /\ UNCHANGED <<ovars, variant, pattern, tracerKind, hreq, parentSpanContext, extractErr, hspan,
                   deferred, ctxSpan, handlerCalls, handlerCtx>>

\* The closure is left, by return or by the panic unwinding it: the deferred
\* span.Finish() runs.
LeaveFinishingOnReturnOnly(i) ==
    /\ hpc[i] \in {"returning", "panicking"}
    /\ hspan' = [hspan EXCEPT ![i] = IF hpc[i] = "returning" THEN Finish(@) ELSE @]
    /\ hpc' = [hpc EXCEPT ![i] = IF hpc[i] = "returning" THEN "done" ELSE "panicked"]
    /\ UNCHANGED <<ovars, variant, pattern, tracerKind, hreq, parentSpanContext, extractErr, deferred,
                   ctxSpan, handlerCalls, handlerCtx>>

Leave(i) ==
    /\ hpc[i] \in {"returning", "panicking"}
    /\ hspan' = [hspan EXCEPT ![i] = IF deferred[i] THEN Finish(@) ELSE @]
    /\ hpc' = [hpc EXCEPT ![i] = IF hpc[i] = "returning" THEN "done" ELSE "panicked"]
    /\ UNCHANGED <<ovars, variant, pattern, tracerKind, hreq, parentSpanContext, extractErr, deferred,
                   ctxSpan, handlerCalls, handlerCtx>>

HNext ==
    \E i \in Requests :
        \/ Receive(i)
        \/ ExtractContext(i)
        \/ StartHandlerSpan(i)
        \/ WithContext(i)
        \/ ServeHTTP(i)
        \/ HandlerReturns(i)
        \/ HandlerPanics(i)
        \/ Leave(i)

\* ------------------------------------------------ outbound: the operations

SpanId(c) == "s" \o ToString(c)

\* opentracing.StartSpanFromContext(ctx, operationName): a child of the span
\* ctx holds, with its baggage, or a root span.
StartSpanIgnoringContext(ctx, operationName, id) ==
    [NoOutSpan EXCEPT !.started = TRUE, !.operationName = operationName,
                      !.context = [id |-> id, baggage |-> ""]]

StartSpanFromContext(ctx, operationName, id) ==
    [NoOutSpan EXCEPT
        !.started = TRUE,
        !.operationName = operationName,
        !.references = IF ctx = NoCtxSpan THEN {} ELSE {ctx},
        !.context = [id |-> id,
                     baggage |-> Baggage(ctx)]]

\* tracer.Inject(span.Context(), HTTPHeaders, HTTPHeadersCarrier(r.Header)):
\* the tracer sets one header per item of the context and no other.
Inject(sc, header) ==
    [id |-> sc.id,
     baggage |-> IF sc.baggage # "" THEN sc.baggage ELSE header.baggage]

\* tracer.Extract(HTTPHeaders, HTTPHeadersCarrier(header)): the context made
\* of every trace header of the map.
ExtractCarrier(header) ==
    IF header.id = ""
    THEN [ctx |-> [id |-> "", baggage |-> ""], err |-> TRUE]
    ELSE [ctx |-> [id |-> header.id, baggage |-> header.baggage], err |-> FALSE]

\* span.LogFields(...): one more log entry on the span.
LogFields(s) == [s EXCEPT !.logs = @ + 1]

\* span.SetTag("error", true)
SetTag(s, key) == [s EXCEPT !.tags = @ \cup {key}]

\* span.Finish()
FinishOut(s) == [s EXCEPT !.finishCount = @ + 1]

\* One of the seven hooks: each logs one entry to the span of its closure.
CallbackTaggingError(s, e) ==
    IF e = "ConnectDone" THEN SetTag(LogFields(s), "error") ELSE LogFields(s)

Callback(s, e) == LogFields(s)

\* httptrace.WithClientTrace(r.Context(), trace): the hooks of trace, and then
\* those a ClientTrace already in r.Context() has.
WithClientTrace(hooks, c) == hooks \cup {c}

\* The requests TraceRequest may be given: a new one, with its own header map,
\* or one an earlier call returned.
InputRequests(c, headers) ==
    {[hmap |-> c, hooks |-> {}, header |-> h] : h \in headers}
    \cup {[hmap |-> oreq[d].hmap, hooks |-> oreq[d].hooks, header |-> hdrs[oreq[d].hmap]] :
             d \in {x \in Calls : opc[x] # "idle"}}

OInit ==
    /\ opc = [c \in Calls |-> "idle"]
    /\ oargs = [c \in Calls |-> [operationName |-> "", ctx |-> NoCtxSpan]]
    /\ ospan = [c \in Calls |-> NoOutSpan]
    /\ oreq = [c \in Calls |-> [hmap |-> c, hooks |-> {}]]
    /\ hdrs = [c \in Calls |-> CleanHeaders]
    /\ fired = [c \in Calls |-> 0]
    /\ nspans = 0

\* TraceRequest(operationName, ctx, r), the whole of it, on arguments drawn
\* from the given sets.
TraceRequestOf(c, names, ctxs, headers) ==
    /\ opc[c] = "idle"
    /\ \E operationName \in names, ctx \in ctxs, r \in InputRequests(c, headers) :
          LET span == StartSpanFromContext(ctx, operationName, SpanId(c))
          IN  /\ oargs' = [oargs EXCEPT ![c] = [operationName |-> operationName, ctx |-> ctx]]
              /\ ospan' = [ospan EXCEPT ![c] = span]
              /\ hdrs' = [hdrs EXCEPT ![r.hmap] = Inject(span.context, r.header)]
              /\ oreq' = [oreq EXCEPT ![c] = [hmap |-> r.hmap,
                                              hooks |-> WithClientTrace(r.hooks, c)]]
    /\ nspans' = nspans + 1
    /\ opc' = [opc EXCEPT ![c] = "open"]
    /\ UNCHANGED <<hvars, fired>>

\* TraceRequest on every argument.
TraceRequest(c) == TraceRequestOf(c, OpNames, Ctxs, InitialHeaders)

\* TraceRequest on one name, a ctx without span and requests without trace
\* headers or returned by an earlier call: the hooks and the caller read
\* neither the name, nor the parent, nor the headers.
TraceRequestPlain(c) ==
    TraceRequestOf(c, {"GET example.com"}, {NoCtxSpan}, {CleanHeaders})

\* The caller hands the returned request to the transport:
\* http.DefaultTransport.RoundTrip(tracedReq).
RoundTripStarts(c) ==
    /\ opc[c] = "open"
    /\ opc' = [opc EXCEPT ![c] = "inflight"]
    /\ UNCHANGED <<hvars, oargs, ospan, oreq, hdrs, fired, nspans>>

\* The hook events fired so far, over all requests (for the bound MaxEvents).
RECURSIVE Sum(_, _)
Sum(f, S) == IF S = {} THEN 0 ELSE LET x == CHOOSE y \in S : TRUE IN f[x] + Sum(f, S \ {x})

FiredInAll == Sum(fired, Calls)

\* The transport fires one of the hooks of the request's ClientTrace, while
\* the round trip runs or, as httptrace allows, after it has returned.  Each
\* hooked span logs one entry; on a span that is already finished the call
\* is undefined behaviour of the tracing API: the entry is kept or dropped.
HookFires(c, e) ==
    /\ opc[c] \notin {"idle", "open"}
    /\ FiredInAll < MaxEvents
    /\ e \in HookEvents
    /\ fired' = [fired EXCEPT ![c] = @ + 1]
    /\ \E dropped \in SUBSET {d \in oreq[c].hooks : ospan[d].finishCount > 0} :
          ospan' = [d \in Calls |->
                       IF d \in oreq[c].hooks \ dropped
                       THEN Callback(ospan[d], e)
                       ELSE ospan[d]]
    /\ UNCHANGED <<hvars, opc, oargs, oreq, hdrs, nspans>>

\* RoundTrip returns, a response or an error.
RoundTripReturns(c) ==
    /\ opc[c] = "inflight"
    /\ \E res \in {"ok", "failed"} : opc' = [opc EXCEPT ![c] = res]
    /\ UNCHANGED <<hvars, oargs, ospan, oreq, hdrs, fired, nspans>>

\* The caller: if err != nil { span.SetTag("error", true) }
CallerTagsError(c) ==
    /\ opc[c] = "failed"
    /\ ospan' = [ospan EXCEPT ![c] = SetTag(@, "error")]
    /\ opc' = [opc EXCEPT ![c] = "tagged"]
    /\ UNCHANGED <<hvars, oargs, oreq, hdrs, fired, nspans>>

\* The caller: span.Finish()
CallerFinishes(c) ==
    /\ opc[c] \in {"ok", "tagged"}
    /\ ospan' = [ospan EXCEPT ![c] = FinishOut(@)]
    /\ opc' = [opc EXCEPT ![c] = "finished"]
    /\ UNCHANGED <<hvars, oargs, oreq, hdrs, fired, nspans>>

RNext == \E c \in Calls : TraceRequest(c)

LNext ==
    \E c \in Calls :
        \/ TraceRequestPlain(c)
        \/ RoundTripStarts(c)
        \/ \E e \in HookEvents : HookFires(c, e)
        \/ RoundTripReturns(c)
        \/ CallerTagsError(c)
        \/ CallerFinishes(c)

\* --------------------------------------------------- the specifications

\* The handler TraceHandler returns, serving requests.
InitHandler == HInit /\ OInit

SpecHandler == InitHandler /\ [][HNext]_vars

\* TraceRequest on all its arguments, in the build that holds it (part_000),
\* with no inbound request served.
InitRequest ==
    /\ HInit
    /\ variant = "method+pattern"
    /\ pattern = "/foo"
    /\ tracerKind = "nilOnError"
    /\ OInit

SpecRequest == InitRequest /\ [][RNext]_vars

\* The requests TraceRequest returned, sent by their callers.
SpecLifecycle == InitRequest /\ [][LNext]_vars

\* ------------------------------------------------------ inbound: the claims

Left(i) == hpc[i] \in {"done", "panicked"}

\* C1: the span started for a request is finished exactly once on every exit
\* path of the wrapped handler: once the closure is left, by a return or by a
\* panic, the span has been finished once, and it is never finished twice.
C1_FinishedExactlyOnce ==
    \A i \in Requests :
        /\ hspan[i].finishCount <= 1
        /\ Left(i) => hspan[i].started /\ hspan[i].finishCount = 1

\* A request whose handler panicked and one whose handler returned, both left.
C1_Witness ==
    \E i, j \in Requests :
        /\ hpc[i] = "panicked" /\ hspan[i].finishCount = 1
        /\ hpc[j] = "done" /\ hspan[j].finishCount = 1

\* C2: when the headers carry a valid parent SpanContext, the span is started
\* as a child of exactly that context.
C2_ChildOfExtracted ==
    \A i \in Requests :
        (hreq[i].header \in ParentCtxs /\ hspan[i].started)
            => hspan[i].references = {hreq[i].header}

C2_Witness ==
    \E i \in Requests :
        /\ hreq[i].header = "ctxB"
        /\ hspan[i].started
        /\ hspan[i].references = {"ctxB"}

\* C3: when Extract reports an error, whatever context it returns beside it,
\* the span is started as a root span with no parent, and the wrapped handler
\* is still called.
C3_ErrorMeansRoot ==
    \A i \in Requests :
        /\ (extractErr[i] /\ hspan[i].started) => hspan[i].references = {}
        /\ (extractErr[i] /\ Left(i)) => handlerCalls[i] = 1

\* C4 as stated: the span is named after the pattern alone, whatever the
\* method of the request.
C4_NamedAfterPatternAlone ==
    \A i \in Requests : hspan[i].started => hspan[i].operationName = pattern

\* C4 as amended: the span is named after the pattern alone by the
\* TraceHandler of opentracing_helpers.go and part_001, and after the method,
\* a space and the pattern by the TraceHandler of part_000.
C4_NamedPerVariant ==
    \A i \in Requests :
        hspan[i].started =>
            /\ variant = "pattern" => hspan[i].operationName = pattern
            /\ variant = "method+pattern" =>
                  /\ hspan[i].operationName = hreq[i].method \o " " \o pattern
                  /\ hspan[i].operationName # pattern

\* A POST to "/foo" without trace headers, served by the TraceHandler of
\* part_000: the span is named "POST /foo".
C4_Witness ==
    \E i \in Requests :
        /\ variant = "method+pattern"
        /\ pattern = "/foo"
        /\ hreq[i].method = "POST"
        /\ hreq[i].header = NoHeaders
        /\ hspan[i].started
        /\ hspan[i].operationName = "POST /foo"

\* C5: the span is started, then stored in the request's context, then the
\* wrapped handler is called once with that context, and the span is finished
\* only when the wrapped handler has stopped running.
C5_Order ==
    \A i \in Requests :
        /\ handlerCalls[i] <= 1
        /\ ctxSpan[i] # 0 => (ctxSpan[i] = i /\ hspan[i].started)
        /\ handlerCalls[i] = 1 => (handlerCtx[i] = i /\ hspan[i].started)
        /\ hpc[i] = "serving" => (handlerCalls[i] = 1 /\ hspan[i].finishCount = 0)
        /\ hspan[i].finishCount > 0 => (handlerCalls[i] = 1 /\ Left(i))
        /\ Left(i) => handlerCalls[i] = 1

\* The wrapped handler is running with the open span in its context.
C5_Witness ==
    \E i \in Requests :
        /\ hpc[i] = "serving"
        /\ handlerCtx[i] = i
        /\ hspan[i].started
        /\ hspan[i].finishCount = 0

\* ----------------------------------------------------- outbound: the claims

Called(c) == opc[c] # "idle"

\* C6: TraceRequest starts exactly one new span, named operationName; the span
\* is a child of the span ctx holds, and a root span when ctx holds none.
C6_OneSpanChildOfCtx ==
    /\ nspans = Cardinality({c \in Calls : Called(c)})
    /\ \A c \in Calls :
          /\ ospan[c].started <=> Called(c)
          /\ Called(c) =>
                /\ ospan[c].operationName = oargs[c].operationName
                /\ oargs[c].ctx = NoCtxSpan => ospan[c].references = {}
                /\ oargs[c].ctx \in CallerSpans => ospan[c].references = {oargs[c].ctx}

\* One call with a span in ctx and one with none, under different names.
C6_Witness ==
    \E c, d \in Calls :
        /\ oargs[c].ctx = "callerB" /\ ospan[c].references = {"callerB"}
        /\ ospan[c].operationName = "POST example.com"
        /\ Called(d) /\ oargs[d].ctx = NoCtxSpan /\ ospan[d].references = {}
        /\ ospan[d].operationName = "GET example.com"

\* C7: when TraceRequest returns, extracting from the headers of the returned
\* request yields the context of the returned span, whatever headers the
\* request came with.
C7_RoundTrip ==
    [][\A c \in Calls :
          (opc[c] = "idle" /\ opc'[c] = "open") =>
              ExtractCarrier(hdrs'[oreq'[c].hmap]) = [ctx |-> ospan'[c].context, err |-> FALSE]
      ]_vars

\* C8: each firing of a hook for a request appends exactly one log entry to
\* the span returned with that request and none to another span: the entries
\* of a span are as many as the events fired for its request.
C8_OneEntryPerEvent ==
    \A c \in Calls : ospan[c].logs = fired[c]

\* C9: no callback appends a log entry to a span that has been finished.
C9_NoLogAfterFinish ==
    [][\A c \in Calls : ospan[c].finishCount > 0 => ospan'[c].logs = ospan[c].logs]_vars

\* C10: TraceRequest returns its span open, without log entry or error tag,
\* and nothing is sent before the caller sends it; the span is finished, and
\* tagged with the error, only by the caller's own steps.
C10_ReturnsOpen ==
    [][\A c \in Calls :
          /\ (opc[c] = "idle" /\ opc'[c] # "idle") =>
                /\ opc'[c] = "open"
                /\ ospan'[c].started
                /\ ospan'[c].finishCount = 0
                /\ ospan'[c].logs = 0
                /\ ospan'[c].tags = {}
                /\ fired'[c] = 0
          /\ opc[c] = "open" => fired'[c] = 0
          /\ ospan'[c].finishCount # ospan[c].finishCount =>
                (opc[c] \in {"ok", "tagged"} /\ opc'[c] = "finished")
          /\ ospan'[c].tags # ospan[c].tags =>
                (opc[c] = "failed" /\ opc'[c] = "tagged")
      ]_vars

\* A span whose round trip failed after a hook had fired, tagged and finished
\* by its caller, beside a span that is still as TraceRequest returned it.
C10_Witness ==
    \E c, d \in Calls :
        /\ opc[c] = "finished"
        /\ ospan[c].tags = {"error"}
        /\ ospan[c].finishCount = 1
        /\ ospan[c].logs > 0
        /\ opc[d] = "open"
        /\ ospan[d].finishCount = 0 /\ ospan[d].logs = 0 /\ ospan[d].tags = {}

=============================================================================
